---- MODULE Spec2Model ----
(***************************************************************************)
(* The unipack-emails rendering service: three React Email templates       *)
(* (welcome, newsletter, password-reset), the renderEmailTemplate helper   *)
(* and the two HTTP servers that expose it (Bun.serve and Node's           *)
(* createServer).                                                          *)
(*                                                                         *)
(* JSON values are tagged records, a template's element tree is the        *)
(* pre-order stream of its JSX nodes, and a rendered output is the         *)
(* sequence of its tokens: a markup token starts with "<", every other     *)
(* token is a run of text (a literal of the template or a value of the     *)
(* data bag).                                                              *)
(***************************************************************************)
EXTENDS Naturals, Sequences, FiniteSets, TLC

VARIABLES conn, now, kept, served, mixed, registry

vars == <<conn, now, kept, served, mixed, registry>>

(***************************************************************************)
(* Bounds of the model.                                                    *)
(***************************************************************************)
MaxArticles == 2
MaxClock == 1

(***************************************************************************)
(* JSON / JavaScript values.  str is what String(value) gives; items are   *)
(* the elements of an array.                                               *)
(***************************************************************************)
Undefined == [kind |-> "undefined", str |-> "", items |-> <<>>]
Null == [kind |-> "null", str |-> "", items |-> <<>>]
Obj == [kind |-> "object", str |-> "[object Object]", items |-> <<>>]
Str(s) == [kind |-> "string", str |-> s, items |-> <<>>]
Num(s) == [kind |-> "number", str |-> s, items |-> <<>>]
Arr(xs) == [kind |-> "array", str |-> "", items |-> xs]

\* An element of an articles array: a record, or the JSON value null.
Article(t, e, u, r) ==
    [isNull |-> FALSE, title |-> t, excerpt |-> e, url |-> u, readTime |-> r]
NullItem ==
    [isNull |-> TRUE, title |-> Undefined, excerpt |-> Undefined,
     url |-> Undefined, readTime |-> Undefined]

\* The parameters the three templates declare.
Keys ==
    {"username", "loginUrl", "companyName", "resetUrl", "expiryTime",
     "title", "articles", "unsubscribeUrl"}

EmptyBag == [k \in Keys |-> Undefined]

\* The value of body.data: a map (a bag), or a JSON value that is no map.
MapData(bag) == [kind |-> "map", bag |-> bag]
NonMapData(k) == [kind |-> k, bag |-> EmptyBag]

\* Reading property k of data: only a map has the declared keys as its own
\* properties; a string, number, boolean or array has none of them.
Prop(data, k) == IF data.kind = "map" THEN data.bag[k] ELSE Undefined

\* JavaScript truthiness of body.data (the array is [] and the boolean true).
Truthy(data) == data.kind \in {"map", "string", "number", "boolean", "array"}

\* A destructuring default applies to undefined only.
DefaultNullToo(v, d) == IF v.kind \in {"undefined", "null"} THEN d ELSE v
DefaultNone(v, d) == v
Default(v, d) == IF v.kind = "undefined" THEN d ELSE v

\* String.prototype.toLowerCase on the company names of the model.
ToLowerCase(s) ==
    CASE s = "Unipack" -> "unipack"
      [] s = "Acme" -> "acme"
      [] OTHER -> s

(***************************************************************************)
(* Element trees.  A tree is the pre-order stream of its nodes.            *)
(***************************************************************************)
Open(tag, style) ==
    [type |-> "open", tag |-> tag, style |-> style, href |-> Undefined,
     v |-> Undefined, kids |-> <<>>]
OpenHref(tag, style, href) ==
    [type |-> "open", tag |-> tag, style |-> style, href |-> href,
     v |-> Undefined, kids |-> <<>>]
End(tag) ==
    [type |-> "close", tag |-> tag, style |-> "", href |-> Undefined,
     v |-> Undefined, kids |-> <<>>]
EndHref(tag, href) ==
    [type |-> "close", tag |-> tag, style |-> "", href |-> href,
     v |-> Undefined, kids |-> <<>>]
Void(tag, style) ==
    [type |-> "void", tag |-> tag, style |-> style, href |-> Undefined,
     v |-> Undefined, kids |-> <<>>]
Child(v) ==
    [type |-> "child", tag |-> "", style |-> "", href |-> Undefined,
     v |-> v, kids |-> <<>>]
Lit(s) == Child(Str(s))
Preview(kids) ==
    [type |-> "meta", tag |-> "Preview", style |-> "", href |-> Undefined,
     v |-> Undefined, kids |-> kids]

\* <Text style={s}>kids</Text>
Text(style, kids) ==
    <<Open("Text", style)>> \o [i \in 1..Len(kids) |-> Child(kids[i])]
        \o <<End("Text")>>
\* <Button style={s} href={href}>label</Button>
ButtonNoHref(style, href, label) ==
    <<Open("Button", style), Lit(label), End("Button")>>
Button(style, href, label) ==
    <<OpenHref("Button", style, href), Lit(label), EndHref("Button", href)>>
\* <Link href={href} style={s}>child</Link>
Link(style, href, child) ==
    <<OpenHref("Link", style, href), Child(child), EndHref("Link", href)>>

\* F applied to the value of e, which is computed once.
Bind(e, F(_)) == CHOOSE y \in {F(x) : x \in {e}} : TRUE

\* The concatenation of the sequences seqs[lo], ..., seqs[hi].
RECURSIVE FlattenRange(_, _, _)
FlattenRange(seqs, lo, hi) ==
    IF lo > hi THEN <<>>
    ELSE IF lo = hi THEN seqs[lo]
    ELSE FlattenRange(seqs, lo, (lo + hi) \div 2)
           \o FlattenRange(seqs, (lo + hi) \div 2 + 1, hi)

Flatten(seqs) == Bind(seqs, LAMBDA s : FlattenRange(s, 1, Len(s)))

\* The literal copyright notice of the three templates (the sign is written
\* (c) here).
CopyrightYearLive == IF now = 0 THEN "(c) 2024 " ELSE "(c) 2025 "
CopyrightYear == "(c) 2024 "

(***************************************************************************)
(* WelcomeEmail                                                            *)
(***************************************************************************)
WelcomeProps(data) ==
    [username |-> Default(Prop(data, "username"), Str("User")),
     loginUrl |-> Default(Prop(data, "loginUrl"), Str("#")),
     companyName |-> Default(Prop(data, "companyName"), Str("Unipack"))]

WelcomeTree(p) ==
    Flatten(<<
      <<Open("Html", ""), Void("Head", ""),
        Preview(<<Str("Welcome to "), p.companyName,
                  Str(" - Get started with your new account")>>),
        Open("Body", "main"), Open("Container", "container"),
        Open("Section", "header")>>,
      Text("logo", <<p.companyName>>),
      <<End("Section"), Open("Section", "content")>>,
      Text("heading", <<Str("Welcome, "), p.username, Str("!")>>),
      Text("text", <<Str("We're thrilled to have you join the "), p.companyName,
                     Str(" community. Your account has been successfully created, and you're ready to get started.")>>),
      Text("text", <<Str("Click the button below to access your dashboard and begin exploring all the features we have to offer:")>>),
      <<Open("Section", "buttonContainer")>>,
      Button("button", p.loginUrl, "Get Started"),
      <<End("Section"), Void("Hr", "hr")>>,
      Text("text", <<Str("If you have any questions or need assistance, our support team is here to help. Feel free to reply to this email or contact us through our help center.")>>),
      <<End("Section"), Open("Section", "footer")>>,
      Text("footerText", <<Str(CopyrightYear), p.companyName, Str(". All rights reserved.")>>),
      Text("footerText", <<Str("This email was sent to you because you created an account with "),
                           p.companyName, Str(".")>>),
      <<End("Section"), End("Container"), End("Body"), End("Html")>>
    >>)

WelcomeEmail(data) ==
    Bind(WelcomeProps(data),
         LAMBDA p : [threw |-> FALSE, msg |-> "", tree |-> WelcomeTree(p)])


(***************************************************************************)
(* PasswordResetEmail                                                      *)
(***************************************************************************)
PasswordResetProps(data) ==
    [username |-> Default(Prop(data, "username"), Str("User")),
     resetUrl |-> Default(Prop(data, "resetUrl"), Str("#")),
     companyName |-> Default(Prop(data, "companyName"), Str("Unipack")),
     expiryTime |-> Default(Prop(data, "expiryTime"), Str("24 hours"))]

\* companyName.toLowerCase(): a TypeError unless companyName is a string.
LowerCaseError(v) ==
    CASE v.kind = "string" -> ""
      [] v.kind \in {"null", "undefined"} ->
            "Cannot read properties of null (reading 'toLowerCase')"
      [] OTHER -> "companyName.toLowerCase is not a function"

PasswordResetTree(p) ==
    Flatten(<<
      <<Open("Html", ""), Void("Head", ""),
        Preview(<<Str("Reset your "), p.companyName, Str(" password")>>),
        Open("Body", "main"), Open("Container", "container"),
        Open("Section", "header")>>,
      Text("logo", <<p.companyName>>),
      <<End("Section"), Open("Section", "content")>>,
      Text("heading", <<Str("Password Reset Request")>>),
      Text("text", <<Str("Hi "), p.username, Str(",")>>),
      Text("text", <<Str("We received a request to reset the password for your "), p.companyName,
                     Str(" account. If you made this request, click the button below to create a new password:")>>),
      <<Open("Section", "buttonContainer")>>,
      Button("button", p.resetUrl, "Reset Password"),
      <<End("Section")>>,
      Text("text", <<Str("This password reset link will expire in "), p.expiryTime,
                     Str(". If you need to request another reset link, you can do so from our login page.")>>),
      <<Void("Hr", "hr"), Open("Section", "warningSection")>>,
      Text("warningTitle", <<Str("Security Notice")>>),
      Text("warningText", <<Str("If you didn't request this password reset, please ignore this email. Your password will remain unchanged, and your account is secure.")>>),
      Text("warningText", <<Str("For your security, never share this reset link with anyone. Our support team will never ask you for your password or login credentials.")>>),
      <<End("Section"), Void("Hr", "hr")>>,
      Text("text", <<Str("If you're having trouble with the button above, copy and paste the following URL into your browser:")>>),
      Text("urlText", <<p.resetUrl>>),
      <<End("Section"), Open("Section", "footer")>>,
      Text("footerText", <<Str("Need help? Contact our support team at support@"),
                           Str(ToLowerCase(p.companyName.str)), Str(".com")>>),
      Text("footerText", <<Str(CopyrightYear), p.companyName, Str(". All rights reserved.")>>),
      <<End("Section"), End("Container"), End("Body"), End("Html")>>
    >>)

PasswordResetEmail(data) ==
    Bind(PasswordResetProps(data),
         LAMBDA p :
           IF LowerCaseError(p.companyName) # ""
           THEN [threw |-> TRUE, msg |-> LowerCaseError(p.companyName), tree |-> <<>>]
           ELSE [threw |-> FALSE, msg |-> "", tree |-> PasswordResetTree(p)])

(***************************************************************************)
(* NewsletterEmail                                                         *)
(***************************************************************************)
DefaultArticles ==
    Arr(<<Article(Str("Sample Article Title"),
                  Str("This is a sample article excerpt that gives readers a preview of the content..."),
                  Str("#"), Str("5 min read"))>>)

NewsletterPropsEmptyIsDefault(data) ==
    [title |-> Default(Prop(data, "title"), Str("Weekly Newsletter")),
     articles |-> IF Prop(data, "articles") = Arr(<<>>) THEN DefaultArticles
                  ELSE Default(Prop(data, "articles"), DefaultArticles),
     companyName |-> Default(Prop(data, "companyName"), Str("Unipack")),
     unsubscribeUrl |-> Default(Prop(data, "unsubscribeUrl"), Str("#"))]
NewsletterProps(data) ==
    [title |-> Default(Prop(data, "title"), Str("Weekly Newsletter")),
     articles |-> Default(Prop(data, "articles"), DefaultArticles),
     companyName |-> Default(Prop(data, "companyName"), Str("Unipack")),
     unsubscribeUrl |-> Default(Prop(data, "unsubscribeUrl"), Str("#"))]

\* article.readTime && (...): the read-time line is there for a truthy readTime.
ShowReadTime(article) ==
    article.readTime.kind \in {"string", "number"} /\ article.readTime.str # ""

\* index < articles.length - 1 && <Hr/>, with index counted from 0.
ShowDividerAlways(index, length) == index < length
ShowDivider(index, length) == index + 1 < length

\* One element of articles.map(...): the block of the article at index
\* (counted from 0) of an array of the given length.
ArticleBlock(article, index, length) ==
    Flatten(<<
      <<Open("Section", "articleSection"), Open("Text", "articleTitle")>>,
      Link("articleLink", article.url, article.title),
      <<End("Text")>>,
      Text("articleExcerpt", <<article.excerpt>>),
      IF ShowReadTime(article) THEN Text("readTime", <<article.readTime>>) ELSE <<>>,
      <<Open("Section", "articleButtonContainer")>>,
      Button("articleButton", article.url, "Read More"),
      <<End("Section")>>,
      IF ShowDivider(index, length) THEN <<Void("Hr", "articleHr")>> ELSE <<>>,
      <<End("Section")>>
    >>)

\* articles.map(...): a TypeError unless articles is an array, and when an
\* element is null (article.url of null).
ArticlesError(v) ==
    CASE v.kind = "array" ->
            IF \E i \in 1..Len(v.items) : v.items[i].isNull
            THEN "Cannot read properties of null (reading 'url')"
            ELSE ""
      [] v.kind \in {"null", "undefined"} ->
            "Cannot read properties of null (reading 'map')"
      [] OTHER -> "articles.map is not a function"

NewsletterTree(p) ==
    Flatten(<<
      <<Open("Html", ""), Void("Head", ""),
        Preview(<<p.title, Str(" - Latest updates from "), p.companyName>>),
        Open("Body", "main"), Open("Container", "container"),
        Open("Section", "header")>>,
      Text("logo", <<p.companyName>>),
      Text("headerSubtitle", <<p.title>>),
      <<End("Section"), Open("Section", "content")>>,
      Text("greeting", <<Str("Hello there!")>>),
      Text("text", <<Str("Here's what's been happening at "), p.companyName,
                     Str(" this week. We've curated the most interesting updates, insights, and stories just for you.")>>),
      <<End("Section"), Open("Section", "content")>>,
      Text("sectionHeading", <<Str("Latest Articles")>>),
      Flatten([i \in 1..Len(p.articles.items) |->
                 ArticleBlock(p.articles.items[i], i - 1, Len(p.articles.items))]),
      <<End("Section"), Void("Hr", "hr"), Open("Section", "content")>>,
      Text("ctaText", <<Str("Want to stay connected? Follow us on social media for daily updates and behind-the-scenes content.")>>),
      <<Open("Section", "socialSection")>>,
      Button("socialButton", Str("#"), "Twitter"),
      Button("socialButton", Str("#"), "LinkedIn"),
      Button("socialButton", Str("#"), "Facebook"),
      <<End("Section"), End("Section"), Open("Section", "footer")>>,
      Text("footerText", <<Str(CopyrightYear), p.companyName, Str(". All rights reserved.")>>),
      Text("footerText", <<Str("You're receiving this because you subscribed to our newsletter.")>>),
      <<Open("Text", "footerText")>>,
      Link("unsubscribeLink", p.unsubscribeUrl, Str("Unsubscribe")),
      <<Lit(" | ")>>,
      Link("unsubscribeLink", Str("#"), Str("Update preferences")),
      <<End("Text")>>,
      <<End("Section"), End("Container"), End("Body"), End("Html")>>
    >>)

NewsletterEmail(data) ==
    Bind(NewsletterProps(data),
         LAMBDA p :
           IF ArticlesError(p.articles) # ""
           THEN [threw |-> TRUE, msg |-> ArticlesError(p.articles), tree |-> <<>>]
           ELSE [threw |-> FALSE, msg |-> "", tree |-> NewsletterTree(p)])

(***************************************************************************)
(* render(element) and render(element, {plainText: true}) of               *)
(* @react-email/render, as the specification describes the two             *)
(* serializers.                                                            *)
(***************************************************************************)
\* An href attribute is written for a value that is neither null nor undefined.
HasHref(v) == v.kind \in {"string", "number", "object"}

\* The text a child contributes: null, undefined and "" contribute nothing.
ChildTokens(v) ==
    IF v.kind \in {"string", "number"} /\ v.str # "" THEN <<v.str>> ELSE <<>>

\* A plain object is not a valid React child: serializing it throws.
InvalidChild(v) == v.kind = "object"

TreeThrows(tree) ==
    \E i \in 1..Len(tree) :
        \/ tree[i].type = "child" /\ InvalidChild(tree[i].v)
        \/ tree[i].type = "meta"
             /\ \E j \in 1..Len(tree[i].kids) : InvalidChild(tree[i].kids[j])

HtmlTokens(n) ==
    CASE n.type = "open" ->
            IF HasHref(n.href)
            THEN <<"<" \o n.tag \o " style=" \o n.style \o " href=", n.href.str, ">">>
            ELSE <<"<" \o n.tag \o " style=" \o n.style \o ">">>
      [] n.type = "close" -> <<"</" \o n.tag \o ">">>
      [] n.type = "void" -> <<"<" \o n.tag \o " style=" \o n.style \o "/>">>
      [] n.type = "child" -> ChildTokens(n.v)
      [] OTHER ->
            <<"<div preview>">>
              \o Flatten([j \in 1..Len(n.kids) |-> ChildTokens(n.kids[j])])
              \o <<"</div>">>

\* Text keeps the text of the text blocks, and the label and then the target
\* of a button or link; a text block or a button ends its line.
TextTokens(n) ==
    CASE n.type = "child" -> ChildTokens(n.v)
      [] n.type = "close" ->
            (IF n.tag \in {"Button", "Link"} /\ HasHref(n.href)
             THEN <<n.href.str>> ELSE <<>>)
              \o (IF n.tag \in {"Text", "Button"} THEN <<"\n">> ELSE <<>>)
      [] OTHER -> <<>>

\* The value a template function returned: an element tree, or (for a
\* function that is no template) a string, a value that renders as nothing
\* (the empty array, a function) or another object.
Element(tree) == [kind |-> "element", tree |-> tree, str |-> ""]
NonElement(kind, str) == [kind |-> kind, tree |-> <<>>, str |-> str]

Render(el, plainText) ==
    CASE el.kind = "element" ->
            IF TreeThrows(el.tree)
            THEN [threw |-> TRUE, out |-> <<>>, where |-> "serialize",
                  msg |-> "Objects are not valid as a React child"]
            ELSE [threw |-> FALSE, msg |-> "", where |-> "none",
                  out |-> IF plainText
                          THEN Flatten([i \in 1..Len(el.tree) |-> TextTokens(el.tree[i])])
                          ELSE <<"<!DOCTYPE html>">>
                                 \o Flatten([i \in 1..Len(el.tree) |-> HtmlTokens(el.tree[i])])]
      [] el.kind = "string" ->
            [threw |-> FALSE, msg |-> "", where |-> "none",
             out |-> IF plainText THEN <<el.str>> ELSE <<"<!DOCTYPE html>", el.str>>]
      [] el.kind = "empty" ->
            [threw |-> FALSE, msg |-> "", where |-> "none",
             out |-> IF plainText THEN <<>> ELSE <<"<!DOCTYPE html>">>]
      [] OTHER ->
            [threw |-> TRUE, out |-> <<>>, where |-> "serialize",
             msg |-> "Objects are not valid as a React child"]

(***************************************************************************)
(* The template registry and renderEmailTemplate.                          *)
(***************************************************************************)
TemplateNames == <<"welcome", "newsletter", "password-reset">>

Registered == {TemplateNames[i] : i \in 1..Len(TemplateNames)}

\* Properties every object literal inherits from Object.prototype.
InheritedNames == {"constructor", "toString"}

\* templates[templateName]: the own property, else the inherited one, else
\* undefined.
Lookup(name) ==
    IF name \in Registered \cup InheritedNames THEN name ELSE "undefined"

\* Template(data).  templates.constructor is Object, which returns the object
\* it is given; templates.toString, called without a receiver, returns
\* "[object Undefined]".
Returned(r) == [threw |-> r.threw, msg |-> r.msg, el |-> Element(r.tree)]

Call(template, data) ==
    CASE template = "welcome" -> Bind(WelcomeEmail(data), Returned)
      [] template = "newsletter" -> Bind(NewsletterEmail(data), Returned)
      [] template = "password-reset" -> Bind(PasswordResetEmail(data), Returned)
      [] template = "constructor" ->
            [threw |-> FALSE, msg |-> "",
             el |-> IF data.kind \in {"array", "function"} THEN NonElement("empty", "")
                    ELSE NonElement("object", "")]
      [] OTHER ->
            [threw |-> FALSE, msg |-> "", el |-> NonElement("string", "[object Undefined]")]

\* One pass of renderEmailTemplate: render(Template(data), ...).
NoPass == [threw |-> FALSE, msg |-> "", where |-> "none", out |-> <<>>]

Pass(template, data, plainText) ==
    Bind(Call(template, data),
         LAMBDA c : IF c.threw
                    THEN [threw |-> TRUE, msg |-> c.msg, where |-> "build", out |-> <<>>]
                    ELSE Render(c.el, plainText))

\* What renderEmailTemplate returned, or the exception it raised: while it
\* looked the template up, while the template function built the element
\* tree (build), or while render serialized it (serialize).
NoResult ==
    [threw |-> FALSE, msg |-> "", where |-> "none", hasHtml |-> FALSE,
     html |-> <<>>, hasText |-> FALSE, text |-> <<>>]
Thrown(where, msg) == [NoResult EXCEPT !.threw = TRUE, !.where = where, !.msg = msg]

\* The result object, from the outcomes of the html pass and the text pass
\* (NoPass for a pass the format does not ask for).
ResultPartial(h, t, wantHtml, wantText) ==
    [threw |-> FALSE, msg |-> "", where |-> "none",
     hasHtml |-> wantHtml /\ ~h.threw, html |-> h.out,
     hasText |-> wantText /\ ~t.threw, text |-> t.out]
Result(h, t, wantHtml, wantText) ==
    CASE h.threw -> Thrown(h.where, h.msg)
      [] t.threw -> Thrown(t.where, t.msg)
      [] OTHER ->
            [threw |-> FALSE, msg |-> "", where |-> "none",
             hasHtml |-> wantHtml, html |-> h.out,
             hasText |-> wantText, text |-> t.out]

\* Variants in which a pass is given a bag of its own: the text pass of mode
\* 'both', and the html pass.
renderEmailTemplateTextApart(templateName, data, format) ==
    LET Template == Lookup(templateName)
        wantHtml == format \in {"html", "both"}
        wantText == format \in {"text", "both"}
        textData == IF format = "both" THEN MapData(EmptyBag) ELSE data
    IN  IF Template = "undefined"
        THEN Thrown("lookup", "Template '" \o templateName \o "' not found")
        ELSE Bind(<<IF wantHtml THEN Pass(Template, data, FALSE) ELSE NoPass,
                    IF wantText THEN Pass(Template, textData, TRUE) ELSE NoPass>>,
                  LAMBDA ps : Result(ps[1], ps[2], wantHtml, wantText))
renderEmailTemplateHtmlApart(templateName, data, format) ==
    LET Template == Lookup(templateName)
        wantHtml == format \in {"html", "both"}
        wantText == format \in {"text", "both"}
    IN  IF Template = "undefined"
        THEN Thrown("lookup", "Template '" \o templateName \o "' not found")
        ELSE Bind(<<IF wantHtml THEN Pass(Template, MapData(EmptyBag), FALSE) ELSE NoPass,
                    IF wantText THEN Pass(Template, data, TRUE) ELSE NoPass>>,
                  LAMBDA ps : Result(ps[1], ps[2], wantHtml, wantText))

renderEmailTemplate(templateName, data, format) ==
    LET Template == Lookup(templateName)
        wantHtml == format \in {"html", "both"}
        wantText == format \in {"text", "both"}
    IN  IF Template = "undefined"
        THEN Thrown("lookup", "Template '" \o templateName \o "' not found")
        ELSE Bind(<<IF wantHtml THEN Pass(Template, data, FALSE) ELSE NoPass,
                    IF wantText THEN Pass(Template, data, TRUE) ELSE NoPass>>,
                  LAMBDA ps : Result(ps[1], ps[2], wantHtml, wantText))

(***************************************************************************)
(* getSampleData and getTemplateDescription.                               *)
(***************************************************************************)
SampleBag(templateName) ==
    CASE templateName = "welcome" ->
            [EmptyBag EXCEPT !["username"] = Str("John Doe"),
                             !["loginUrl"] = Str("https://app.unipack.com/login"),
                             !["companyName"] = Str("Unipack")]
      [] templateName = "newsletter" ->
            [EmptyBag EXCEPT
               !["title"] = Str("Weekly Newsletter"),
               !["companyName"] = Str("Unipack"),
               !["articles"] = Arr(<<
                   Article(Str("Introducing New Features"),
                           Str("We are excited to announce several new features that will enhance your experience..."),
                           Str("https://blog.unipack.com/new-features"), Str("5 min read")),
                   Article(Str("Product Updates"),
                           Str("This month we have shipped improvements to performance, security, and user interface..."),
                           Str("https://blog.unipack.com/product-updates"), Str("3 min read"))>>),
               !["unsubscribeUrl"] = Str("https://app.unipack.com/unsubscribe")]
      [] OTHER ->
            [EmptyBag EXCEPT !["username"] = Str("John Doe"),
                             !["resetUrl"] = Str("https://app.unipack.com/reset-password?token=abc123"),
                             !["companyName"] = Str("Unipack"),
                             !["expiryTime"] = Str("24 hours")]

\* sampleData[templateName] || {}: an inherited name yields the inherited
\* property (a function), which is no map.
getSampleData(templateName) ==
    IF templateName \in Registered THEN MapData(SampleBag(templateName))
    ELSE IF templateName \in InheritedNames THEN NonMapData("function")
    ELSE MapData(EmptyBag)

getTemplateDescription(templateName) ==
    CASE templateName = "welcome" -> "Welcome email for new user registration"
      [] templateName = "newsletter" -> "Newsletter email with articles and updates"
      [] templateName = "password-reset" -> "Password reset email with secure reset link"
      [] OTHER -> "Email template"

(***************************************************************************)
(* Requests.  A path is the sequence of its segments: "/render/welcome" is *)
(* <<"render", "welcome">> and "/" is <<>>.  A request body is the         *)
(* sequence of the chunks it arrives in; a chunk is a part of the text of  *)
(* a JSON document, or text that is no JSON.                               *)
(***************************************************************************)
Formats == {"absent", "html", "text", "both", "pdf"}

ObjectDoc(data, format) == [kind |-> "object", data |-> data, format |-> format]
NullDoc == [kind |-> "null", data |-> NonMapData("undefined"), format |-> "absent"]
ScalarDoc == [kind |-> "scalar", data |-> NonMapData("undefined"), format |-> "absent"]
GarbageDoc == [kind |-> "garbage", data |-> NonMapData("undefined"), format |-> "absent"]

Chunk(doc, part, of) == [doc |-> doc, part |-> part, of |-> of]
Whole(doc) == <<Chunk(doc, 1, 1)>>
Halves(doc) == <<Chunk(doc, 1, 2), Chunk(doc, 2, 2)>>
Truncated(doc) == <<Chunk(doc, 1, 2)>>

\* JSON.parse of the accumulated text: it succeeds on the complete text of
\* one document, its parts in order, and throws a SyntaxError otherwise.
JSONParse(raw) ==
    IF /\ Len(raw) >= 1
       /\ raw[1].doc.kind # "garbage"
       /\ Len(raw) = raw[1].of
       /\ \A i \in 1..Len(raw) : raw[i].doc = raw[1].doc /\ raw[i].part = i
    THEN [ok |-> TRUE, doc |-> raw[1].doc]
    ELSE [ok |-> FALSE, doc |-> GarbageDoc]

\* new URL(req.url, `http://localhost:${port}`) of the Node server throws for
\* the request target "//" (a scheme-relative reference with an empty host);
\* new URL(req.url) of the Bun servers is given an absolute URL and parses it.
UrlParses(path) == path # <<"", "">>

\* url.pathname.startsWith('/render/')
StartsWith(path, prefix) == Len(path) >= 2 /\ path[1] = prefix

RECURSIVE Join(_)
Join(segs) ==
    IF Len(segs) = 0 THEN ""
    ELSE IF Len(segs) = 1 THEN segs[1]
    ELSE segs[1] \o "/" \o Join(Tail(segs))

\* url.pathname.split('/render/')[1] of a path that starts with '/render/':
\* the text between the leading separator and its next occurrence.
SplitName(path, prefix) ==
    LET next == {j \in 3..(Len(path) - 1) : path[j] = prefix}
        stop == IF next = {} THEN Len(path) + 1
                ELSE CHOOSE j \in next : \A k \in next : j <= k
    IN  Join(SubSeq(path, 2, stop - 1))

(***************************************************************************)
(* Responses.                                                              *)
(***************************************************************************)
Response(status, ctype, kind) ==
    [status |-> status, ctype |-> ctype, cors |-> TRUE, kind |-> kind,
     success |-> "none", error |-> "", hasHtml |-> FALSE, html |-> <<>>,
     hasText |-> FALSE, text |-> <<>>, routes |-> FALSE, ts |-> 0]

NoResponse == [Response(0, "", "none") EXCEPT !.cors = FALSE]

Preflight == Response(200, "", "empty")
Health(t) == [Response(200, "application/json", "health") EXCEPT !.ts = t]
TemplateList == [Response(200, "application/json", "templates") EXCEPT !.success = "true"]
NotFoundMessage(templateName) ==
    "Template '" \o templateName
      \o "' not found. Available templates: welcome, newsletter, password-reset"
TemplateNotFound(templateName) ==
    [Response(404, "application/json", "error") EXCEPT
       !.success = "false", !.error = NotFoundMessage(templateName)]
InvalidJson ==
    [Response(400, "application/json", "error") EXCEPT
       !.success = "false", !.error = "Invalid JSON body"]
Rendered(r) ==
    [Response(200, "application/json", "render") EXCEPT
       !.success = "true", !.hasHtml = r.hasHtml, !.html = r.html,
       !.hasText = r.hasText, !.text = r.text]
PreviewNotFound(templateName) ==
    [Response(404, "", "message") EXCEPT !.error = NotFoundMessage(templateName)]
PreviewPage(r) ==
    [Response(200, "text/html", "page") EXCEPT !.hasHtml = r.hasHtml, !.html = r.html]
Documentation == Response(200, "text/html", "docs")
RouteNotFound ==
    [Response(404, "application/json", "error") EXCEPT
       !.success = "false", !.error = "Route not found", !.routes = TRUE]
ServerError(msg) ==
    [Response(500, "application/json", "error") EXCEPT
       !.success = "false", !.error = msg]
\* The Node server's catch block when the URL did not parse: the CORS headers
\* are set after the URL is parsed, so this response has none.
UrlError == [ServerError("Invalid URL") EXCEPT !.cors = FALSE]
\* The simple server's 404: no availableRoutes.
SimpleNotFound == [RouteNotFound EXCEPT !.routes = FALSE]

\* What a handler step did: the response it sent (or that it waits for the
\* body), the exception it caught and where it was raised, and how often it
\* called renderEmailTemplate.
NoThrow == [where |-> "none", msg |-> ""]
Threw(where, msg) == [where |-> where, msg |-> msg]
Done(resp, thrown, renders) ==
    [final |-> TRUE, resp |-> resp, thrown |-> thrown, renders |-> renders]
AwaitBody ==
    [final |-> FALSE, resp |-> NoResponse, thrown |-> NoThrow, renders |-> 0]

(***************************************************************************)
(* The Bun server: fetch(req).                                             *)
(***************************************************************************)
\* body.format || 'html' and body.data || {}
FormatOfBoth(doc) == IF doc.format = "absent" THEN "both" ELSE doc.format
FormatOf(doc) == IF doc.format = "absent" THEN "html" ELSE doc.format
DataOf(doc) == IF Truthy(doc.data) THEN doc.data ELSE MapData(EmptyBag)

\* The part of fetch up to the first await.
BunFetch(req, t) ==
    IF req.method = "OPTIONS" THEN Done(Preflight, NoThrow, 0)
    ELSE IF req.path = <<"health">> /\ req.method = "GET"
    THEN Done(Health(t), NoThrow, 0)
    ELSE IF req.path = <<"templates">> /\ req.method = "GET"
    THEN Done(TemplateList, NoThrow, 0)
    ELSE IF StartsWith(req.path, "render") /\ req.method = "POST"
    THEN LET templateName == SplitName(req.path, "render") IN
         IF Lookup(templateName) = "undefined"
         THEN Done(TemplateNotFound(templateName), NoThrow, 0)
         ELSE AwaitBody
    ELSE IF StartsWith(req.path, "preview") /\ req.method = "GET"
    THEN LET templateName == SplitName(req.path, "preview") IN
         IF Lookup(templateName) = "undefined"
         THEN Done(PreviewNotFound(templateName), NoThrow, 0)
         ELSE Bind(renderEmailTemplate(templateName, getSampleData(templateName), "html"),
                   LAMBDA r : IF r.threw
                              THEN Done(ServerError(r.msg), Threw(r.where, r.msg), 1)
                              ELSE Done(PreviewPage(r), NoThrow, 1))
    ELSE IF req.path = <<>> /\ req.method = "GET"
    THEN Done(Documentation, NoThrow, 0)
    ELSE Done(RouteNotFound, NoThrow, 0)

\* The rest of the render route, from await req.json() on: an unparseable
\* body is answered 400, every other exception reaches the outer catch.
BunRender(templateName, raw) ==
    LET parsed == JSONParse(raw)
        body == parsed.doc
        nullMsg == "Cannot read properties of null (reading 'format')"
    IN  IF ~parsed.ok THEN Done(InvalidJson, Threw("parse", "SyntaxError"), 0)
        ELSE IF body.kind = "null"
        THEN Done(ServerError(nullMsg), Threw("request", nullMsg), 0)
        ELSE Bind(renderEmailTemplate(templateName, DataOf(body), FormatOf(body)),
                  LAMBDA rendered :
                    IF rendered.threw
                    THEN Done(ServerError(rendered.msg), Threw(rendered.where, rendered.msg), 1)
                    ELSE Done(Rendered(rendered), NoThrow, 1))

(***************************************************************************)
(* The Node server: the createServer handler and the 'end' callback.       *)
(***************************************************************************)
NodeHandler(req, t) ==
    IF ~UrlParses(req.path) THEN Done(UrlError, Threw("request", "Invalid URL"), 0)
    ELSE IF req.method = "OPTIONS" THEN Done(Preflight, NoThrow, 0)
    ELSE IF req.path = <<"health">> /\ req.method = "GET"
    THEN Done(Health(t), NoThrow, 0)
    ELSE IF req.path = <<"templates">> /\ req.method = "GET"
    THEN Done(TemplateList, NoThrow, 0)
    ELSE IF StartsWith(req.path, "render") /\ req.method = "POST"
    THEN LET templateName == SplitName(req.path, "render") IN
         IF Lookup(templateName) = "undefined"
         THEN Done(TemplateNotFound(templateName), NoThrow, 0)
         ELSE AwaitBody
    ELSE IF StartsWith(req.path, "preview") /\ req.method = "GET"
    THEN LET templateName == SplitName(req.path, "preview") IN
         IF Lookup(templateName) = "undefined"
         THEN Done(PreviewNotFound(templateName), NoThrow, 0)
         ELSE Bind(renderEmailTemplate(templateName, getSampleData(templateName), "html"),
                   LAMBDA r : IF r.threw
                              THEN Done(ServerError(r.msg), Threw(r.where, r.msg), 1)
                              ELSE Done(PreviewPage(r), NoThrow, 1))
    ELSE IF req.path = <<>> /\ req.method = "GET"
    THEN Done(Documentation, NoThrow, 0)
    ELSE Done(RouteNotFound, NoThrow, 0)

\* req.on('end'): one try block around JSON.parse and the render, whose catch
\* answers 400 'Invalid JSON body' whatever was thrown.
NodeEndCallback(templateName, raw) ==
    LET parsed == JSONParse(raw)
        emailRequest == parsed.doc
        nullMsg == "Cannot read properties of null (reading 'format')"
    IN  IF ~parsed.ok THEN Done(InvalidJson, Threw("parse", "SyntaxError"), 0)
        ELSE IF emailRequest.kind = "null"
        THEN Done(InvalidJson, Threw("request", nullMsg), 0)
        ELSE Bind(renderEmailTemplate(templateName, DataOf(emailRequest),
                                      FormatOf(emailRequest)),
                  LAMBDA rendered :
                    IF rendered.threw
                    THEN Done(InvalidJson, Threw(rendered.where, rendered.msg), 1)
                    ELSE Done(Rendered(rendered), NoThrow, 1))

(***************************************************************************)
(* The simple server: preflight, /health and the home page only.           *)
(***************************************************************************)
SimpleFetch(req, t) ==
    IF req.method = "OPTIONS" THEN Done(Preflight, NoThrow, 0)
    ELSE IF req.path = <<"health">> /\ req.method = "GET"
    THEN Done(Health(t), NoThrow, 0)
    ELSE IF req.path = <<>> /\ req.method = "GET"
    THEN Done(Documentation, NoThrow, 0)
    ELSE Done(SimpleNotFound, NoThrow, 0)

\* The handler of the server a request is sent to, up to its first await.
Handle(req, t) ==
    CASE req.server = "bun" -> BunFetch(req, t)
      [] req.server = "node" -> NodeHandler(req, t)
      [] OTHER -> SimpleFetch(req, t)

(***************************************************************************)
(* The requests the clients of the model send.                             *)
(***************************************************************************)
Servers == {"bun", "node", "simple"}
\* The servers with the render and preview routes.
RenderServers == {"bun", "node"}

\* The string a client supplies for a parameter.
Supplied(k) ==
    CASE k = "username" -> Str("Ana")
      [] k = "companyName" -> Str("Acme")
      [] k = "expiryTime" -> Str("2 hours")
      [] k = "title" -> Str("Monthly Update")
      [] OTHER -> Str("https://x/y")

\* Article records a client supplies: a full one, one with neither url nor
\* readTime, one with no excerpt and an empty readTime, and a null element.
Items ==
    {Article(Str("First Article"), Str("First excerpt"), Str("https://blog/1"), Str("4 min read")),
     Article(Str("Second Article"), Str("Second excerpt"), Undefined, Undefined),
     Article(Str("Third Article"), Undefined, Str("https://blog/3"), Str("")),
     NullItem}

ArticleArrays == UNION {[1..n -> Items] : n \in 0..MaxArticles}

FieldValues(k) ==
    {Null, Supplied(k), Num("5"), Obj}
      \cup (IF k = "articles" THEN {Arr(xs) : xs \in ArticleArrays} ELSE {})

DeclaredKeys(templateName) ==
    CASE templateName = "welcome" -> {"username", "loginUrl", "companyName"}
      [] templateName = "newsletter" ->
            {"title", "articles", "companyName", "unsubscribeUrl"}
      [] templateName = "password-reset" ->
            {"username", "resetUrl", "companyName", "expiryTime"}
      [] OTHER -> {}

\* The bag of the specification's example scenario.
ExampleBag ==
    [EmptyBag EXCEPT !["username"] = Str("Ana"), !["resetUrl"] = Str("https://x/y"),
                     !["expiryTime"] = Str("2 hours")]

\* Data bags: the empty one, every bag with one declared key supplied, the
\* sample data and the example.
Bags(templateName) ==
    {EmptyBag, ExampleBag}
      \cup UNION {{[EmptyBag EXCEPT ![k] = v] : v \in FieldValues(k)} :
                    k \in DeclaredKeys(templateName)}
      \cup (IF templateName \in Registered THEN {SampleBag(templateName)} ELSE {})

DataValues(templateName) ==
    {NonMapData(k) : k \in {"undefined", "null", "string", "number", "boolean", "array"}}
      \cup {MapData(b) : b \in Bags(templateName)}

\* The JSON documents sent to a template: to a name that is no template of
\* the registry, a few of them only.
Docs(templateName) ==
    IF templateName \in Registered
    THEN {NullDoc, ScalarDoc}
           \cup {ObjectDoc(d, f) : d \in DataValues(templateName), f \in Formats}
    ELSE {NullDoc}
           \cup {ObjectDoc(d, f) :
                   d \in {NonMapData("undefined"), NonMapData("array"), MapData(EmptyBag)},
                   f \in {"absent", "both"}}

\* The documents that also arrive in two chunks, or cut after the first.
SplitDocs == {ObjectDoc(MapData(ExampleBag), f) : f \in {"absent", "both"}}

Bodies(templateName) ==
    {<<>>, Whole(GarbageDoc)}
      \cup {Whole(d) : d \in Docs(templateName)}
      \cup {Halves(d) : d \in SplitDocs}
      \cup {Truncated(d) : d \in SplitDocs}

PathNames ==
    {"welcome", "newsletter", "password-reset", "Welcome", "", "does-not-exist",
     "constructor", "toString"}

Methods == {"GET", "POST", "OPTIONS"}

Paths ==
    {<<>>, <<"health">>, <<"templates">>, <<"other">>, <<"", "">>}
      \cup {<<r, "welcome", "extra">> : r \in {"render", "preview"}}
      \cup {<<r, "welcome", r, "x">> : r \in {"render", "preview"}}
      \cup {<<"render", n>> : n \in PathNames}
      \cup {<<"preview", n>> : n \in PathNames}

Request(server, method, path, raw) ==
    [server |-> server, method |-> method, path |-> path, raw |-> raw]

IsRender(req) == StartsWith(req.path, "render") /\ req.method = "POST"

\* Every method on every path, POST /render/{name} with every body, and the
\* render paths with further segments with a body that renders.
Requests ==
    {Request(s, m, p, <<>>) : s \in Servers, m \in Methods, p \in Paths}
      \cup UNION {{Request(s, "POST", <<"render", n>>, raw) : raw \in Bodies(n)} :
                    s \in RenderServers, n \in PathNames}
      \cup {Request(s, "POST", p, Whole(ObjectDoc(MapData(SampleBag("welcome")), "html"))) :
               s \in RenderServers,
               p \in {<<"render", "welcome", "extra">>, <<"render", "welcome", "render", "x">>}}

(***************************************************************************)
(* The state machine.  conn is the connection being served: idle, waiting  *)
(* for the request body (reading), or answered (done).  now is the clock.  *)
(* kept is an exchange a client has kept to compare a later one with.      *)
(* served, mixed and registry belong to the two-connection machine below   *)
(* and stay as they are here.                                              *)
(***************************************************************************)
Idle ==
    [pc |-> "idle", req |-> Request("", "", <<>>, <<>>), pending |-> <<>>,
     body |-> <<>>, resp |-> NoResponse, thrown |-> NoThrow, renders |-> 0]

NotKept == [set |-> FALSE, req |-> Idle.req, resp |-> NoResponse, later |-> FALSE]

\* The exchanges a client keeps: the example scenario in mode 'both', and
\* each template's sample data in mode 'both'.
Keepable(req) ==
    /\ IsRender(req)
    /\ \E n \in Registered :
          /\ req.path = <<"render", n>>
          /\ req.raw \in {Whole(ObjectDoc(MapData(SampleBag(n)), "both")),
                          Whole(ObjectDoc(MapData(ExampleBag), "both"))}

Finish(c, out) ==
    [c EXCEPT !.pc = "done", !.resp = out.resp, !.thrown = out.thrown,
              !.renders = out.renders]

\* A request arrives and the handler runs up to its response, or up to the
\* point where it waits for the body.
Accepted(req, t) ==
    Bind(Handle(req, t),
         LAMBDA out :
           IF out.final THEN Finish([Idle EXCEPT !.req = req], out)
           ELSE [Idle EXCEPT !.req = req, !.pc = "reading", !.pending = req.raw])

Arrive(req) ==
    /\ conn.pc = "idle"
    /\ conn' = Accepted(req, now)
    /\ kept' = IF kept.set /\ req # kept.req THEN [kept EXCEPT !.later = TRUE] ELSE kept
    /\ UNCHANGED <<now, served, mixed, registry>>

\* Bun: await req.json() has read the whole body; the handler resumes.
BunJson ==
    /\ conn.pc = "reading"
    /\ conn.req.server = "bun"
    /\ conn' = Finish([conn EXCEPT !.body = conn.pending, !.pending = <<>>],
                      BunRender(SplitName(conn.req.path, "render"), conn.pending))
    /\ UNCHANGED <<now, kept, served, mixed, registry>>

\* Node: req.on('data'): body += chunk.toString()
NodeData ==
    /\ conn.pc = "reading"
    /\ conn.req.server = "node"
    /\ conn.pending # <<>>
    /\ conn' = [conn EXCEPT !.body = Append(conn.body, Head(conn.pending)),
                            !.pending = Tail(conn.pending)]
    /\ UNCHANGED <<now, kept, served, mixed, registry>>

\* Node: req.on('end')
NodeEnd ==
    /\ conn.pc = "reading"
    /\ conn.req.server = "node"
    /\ conn.pending = <<>>
    /\ conn' = Finish(conn, NodeEndCallback(SplitName(conn.req.path, "render"), conn.body))
    /\ UNCHANGED <<now, kept, served, mixed, registry>>

\* The client keeps the exchange.
Keep ==
    /\ conn.pc = "done"
    /\ ~kept.set
    /\ Keepable(conn.req)
    /\ kept' = [set |-> TRUE, req |-> conn.req, resp |-> conn.resp, later |-> FALSE]
    /\ UNCHANGED <<conn, now, served, mixed, registry>>

\* The connection ends.
Close ==
    /\ conn.pc = "done"
    /\ conn' = Idle
    /\ UNCHANGED <<now, kept, served, mixed, registry>>

\* Time passes.
Tick ==
    /\ now < MaxClock
    /\ now' = now + 1
    /\ UNCHANGED <<conn, kept, served, mixed, registry>>

\* The two connections a server has open at a time.
Conns == {1, 2}

Init ==
    /\ conn = Idle
    /\ now = 0
    /\ kept = NotKept
    /\ served = [c \in Conns |-> Idle]
    /\ mixed = [c \in Conns |-> FALSE]
    /\ registry = TemplateNames

Next ==
    \/ \E req \in Requests : Arrive(req)
    \/ BunJson
    \/ NodeData
    \/ NodeEnd
    \/ Keep
    \/ Close
    \/ Tick

Spec == Init /\ [][Next]_vars

\* The render route alone: POST /render/{name} requests, one after the
\* other.  The body of a request that is being read arrives: req.json()
\* resolves, and the 'data' and 'end' events are emitted.
RenderRequests == {req \in Requests : IsRender(req) /\ req.server \in RenderServers}

RenderNext ==
    \/ \E req \in RenderRequests : Arrive(req)
    \/ BunJson
    \/ NodeData
    \/ NodeEnd
    \/ Close

RenderSpec ==
    /\ Init /\ [][RenderNext]_vars
    /\ WF_vars(BunJson) /\ WF_vars(NodeData) /\ WF_vars(NodeEnd)

(***************************************************************************)
(* Two connections served concurrently: the handler of one runs up to an   *)
(* await or a callback's end, then the handler or a callback of the other  *)
(* may run.  served[c] is connection c; mixed[c] records that a chunk of   *)
(* the other connection was read between two chunks of c; registry is the  *)
(* templates object.                                                       *)
(***************************************************************************)
\* let body = '' is declared inside the handler: the 'data' and 'end'
\* callbacks of a request close over that request's own body.
BodyOwnerShared(c) == 1
BodyOwner(c) == c

NullArticlesBag == [EmptyBag EXCEPT !["articles"] = Null]

\* The requests the two clients send.
PairRequests ==
    {Request("node", "POST", <<"render", "password-reset">>,
             Halves(ObjectDoc(MapData(ExampleBag), "both"))),
     Request("node", "POST", <<"render", "welcome">>,
             Halves(ObjectDoc(MapData(ExampleBag), "absent"))),
     Request("node", "POST", <<"render", "password-reset">>,
             Truncated(ObjectDoc(MapData(ExampleBag), "both"))),
     Request("node", "POST", <<"render", "newsletter">>,
             Whole(ObjectDoc(MapData(NullArticlesBag), "html"))),
     Request("node", "POST", <<"render", "does-not-exist">>, <<>>),
     Request("node", "GET", <<"preview", "welcome">>, <<>>),
     Request("node", "GET", <<"", "">>, <<>>),
     Request("bun", "POST", <<"render", "welcome">>,
             Whole(ObjectDoc(MapData(ExampleBag), "both"))),
     Request("bun", "POST", <<"render", "newsletter">>,
             Whole(ObjectDoc(MapData(NullArticlesBag), "html"))),
     Request("bun", "POST", <<"render", "welcome">>, Whole(GarbageDoc))}

PairArrive(c, req) ==
    /\ served[c].pc = "idle"
    /\ \A d \in Conns : served[d].pc # "idle" => served[d].req.server = req.server
    /\ served' = [served EXCEPT ![c] = Accepted(req, now)]
    /\ mixed' = [mixed EXCEPT ![c] = FALSE]
    /\ UNCHANGED <<conn, now, kept, registry>>

PairBunJson(c) ==
    /\ served[c].pc = "reading"
    /\ served[c].req.server = "bun"
    /\ served' = [served EXCEPT ![c] =
                    Finish([served[c] EXCEPT !.body = served[c].pending,
                                             !.pending = <<>>],
                           BunRender(SplitName(served[c].req.path, "render"),
                                     served[c].pending))]
    /\ UNCHANGED <<conn, now, kept, mixed, registry>>

PairNodeData(c) ==
    /\ served[c].pc = "reading"
    /\ served[c].req.server = "node"
    /\ served[c].pending # <<>>
    /\ served' = [[served EXCEPT ![BodyOwner(c)].body =
                                   Append(@, Head(served[c].pending))]
                     EXCEPT ![c].pending = Tail(served[c].pending)]
    /\ mixed' = [d \in Conns |->
                   \/ mixed[d]
                   \/ /\ d # c
                      /\ served[d].pc = "reading"
                      /\ served[d].body # <<>>
                      /\ served[d].pending # <<>>]
    /\ UNCHANGED <<conn, now, kept, registry>>

PairNodeEnd(c) ==
    /\ served[c].pc = "reading"
    /\ served[c].req.server = "node"
    /\ served[c].pending = <<>>
    /\ served' = [served EXCEPT ![c] =
                    Finish(served[c],
                           NodeEndCallback(SplitName(served[c].req.path, "render"),
                                           served[BodyOwner(c)].body))]
    /\ UNCHANGED <<conn, now, kept, mixed, registry>>

PairClose(c) ==
    /\ served[c].pc = "done"
    /\ served' = [served EXCEPT ![c] = Idle]
    /\ UNCHANGED <<conn, now, kept, mixed, registry>>

PairNext ==
    \/ \E c \in Conns, req \in PairRequests : PairArrive(c, req)
    \/ \E c \in Conns : PairBunJson(c)
    \/ \E c \in Conns : PairNodeData(c)
    \/ \E c \in Conns : PairNodeEnd(c)
    \/ \E c \in Conns : PairClose(c)

PairSpec == Init /\ [][PairNext]_vars

(***************************************************************************)
(* The exchange on the connection, as the properties below read it.        *)
(***************************************************************************)
\* POST /render/{name} has been answered.
RenderAnswered ==
    conn.pc = "done" /\ IsRender(conn.req) /\ conn.req.server \in RenderServers
\* The name in the path, and the body the client sent, parsed.
AskedName == SplitName(conn.req.path, "render")
SentBody == JSONParse(conn.req.raw)
\* The body is a JSON object, and its data member is a map.
SentObject == SentBody.ok /\ SentBody.doc.kind = "object"
SentMap == SentObject /\ SentBody.doc.data.kind = "map"
\* The set of the tokens of an output.
Tokens(out) == {out[i] : i \in 1..Len(out)}

\* C1: POST /render/{name} with a name that is not exactly welcome, newsletter
\* or password-reset is answered 404 with success=false and an error listing
\* the three names, and renderEmailTemplate is never called.
C1_UnknownNameIs404 ==
    (RenderAnswered /\ AskedName \notin Registered)
      => /\ conn.resp.status = 404
         /\ conn.resp.success = "false"
         /\ conn.resp.error = NotFoundMessage(AskedName)
         /\ conn.renders = 0

\* C2: when building or serializing the document of a registered template
\* raises an error, the response is 500 with success=false and the error's
\* message, on the Bun server and on the Node server alike.
C2_RenderFailureIs500 ==
    (RenderAnswered /\ AskedName \in Registered
       /\ conn.thrown.where \in {"build", "serialize"})
      => /\ conn.resp.status = 500
         /\ conn.resp.success = "false"
         /\ conn.resp.error = conn.thrown.msg
         /\ ~conn.resp.hasHtml /\ ~conn.resp.hasText

\* C3: for a registered template, a body that does not parse as JSON (the
\* empty body included) is answered 400 'Invalid JSON body', and 400 is
\* answered only when the body does not parse.
C3_Only400WhenUnparseable ==
    (RenderAnswered /\ AskedName \in Registered)
      => /\ ~SentBody.ok => conn.resp = InvalidJson
         /\ conn.resp.status = 400 => ~SentBody.ok

\* C4: a data member that is not a map (a string, a number, an array, a
\* boolean) is refused as invalid input: the answer is 400 and carries no
\* render result.
C4_NonMapDataRefused ==
    (RenderAnswered /\ AskedName \in Registered /\ SentObject
       /\ SentBody.doc.data.kind \in {"string", "number", "array", "boolean"})
      => /\ conn.resp.status = 400
         /\ conn.resp.success = "false"
         /\ ~conn.resp.hasHtml /\ ~conn.resp.hasText

\* C5: for every data bag that is a map, whatever the types of its values,
\* building the document of a registered template raises no error.
C5_BuildIsTotal ==
    (RenderAnswered /\ AskedName \in Registered /\ SentMap)
      => conn.thrown.where # "build"

\* The merge as C6 states it: the bag's value when present and not null, the
\* declared default otherwise; and the document built from merged values.
MergedAsStated(templateName, data) ==
    CASE templateName = "welcome" ->
            [username |-> DefaultNullToo(Prop(data, "username"), Str("User")),
             loginUrl |-> DefaultNullToo(Prop(data, "loginUrl"), Str("#")),
             companyName |-> DefaultNullToo(Prop(data, "companyName"), Str("Unipack"))]
      [] templateName = "newsletter" ->
            [title |-> DefaultNullToo(Prop(data, "title"), Str("Weekly Newsletter")),
             articles |-> DefaultNullToo(Prop(data, "articles"), DefaultArticles),
             companyName |-> DefaultNullToo(Prop(data, "companyName"), Str("Unipack")),
             unsubscribeUrl |-> DefaultNullToo(Prop(data, "unsubscribeUrl"), Str("#"))]
      [] OTHER ->
            [username |-> DefaultNullToo(Prop(data, "username"), Str("User")),
             resetUrl |-> DefaultNullToo(Prop(data, "resetUrl"), Str("#")),
             companyName |-> DefaultNullToo(Prop(data, "companyName"), Str("Unipack")),
             expiryTime |-> DefaultNullToo(Prop(data, "expiryTime"), Str("24 hours"))]

TreeOf(templateName, p) ==
    CASE templateName = "welcome" -> WelcomeTree(p)
      [] templateName = "newsletter" -> NewsletterTree(p)
      [] OTHER -> PasswordResetTree(p)

\* Every value of the bag is absent, null or of its parameter's type.
TypedBag(bag) ==
    /\ \A k \in Keys \ {"articles"} : bag[k].kind \in {"undefined", "null", "string"}
    /\ \/ bag["articles"].kind \in {"undefined", "null"}
       \/ /\ bag["articles"].kind = "array"
          /\ \A i \in 1..Len(bag["articles"].items) : ~bag["articles"].items[i].isNull

\* C6: every declared parameter takes the bag's value when that is present
\* and not null, and the declared default when it is absent or null: the
\* html of the answer is the document built from the values merged so.
C6_NullTakesTheDefault ==
    (RenderAnswered /\ AskedName \in Registered /\ SentMap
       /\ TypedBag(SentBody.doc.data.bag)
       /\ FormatOf(SentBody.doc) \in {"html", "both"})
      => /\ conn.resp.status = 200
         /\ conn.resp.html =
              Render(Element(TreeOf(AskedName,
                                    MergedAsStated(AskedName, SentBody.doc.data))),
                     FALSE).out

\* The positions of a token in an output, and the k-th article block of a
\* newsletter's html: from its opening token up to the next block's opening
\* token, or up to the divider that follows the list.
Positions(out, token) == {i \in 1..Len(out) : out[i] = token}
ArticleOpen == "<Section style=articleSection>"
ArticleDivider == "<Hr style=articleHr/>"
ReadTimeOpen == "<Text style=readTime>"
NthPosition(ps, k) == CHOOSE i \in ps : Cardinality({j \in ps : j <= i}) = k
BlockOf(out, k) ==
    LET starts == Positions(out, ArticleOpen)
        first == NthPosition(starts, k)
        last == IF k < Cardinality(starts) THEN NthPosition(starts, k + 1) - 1
                ELSE (CHOOSE i \in Positions(out, "<Hr style=hr/>") : i > first) - 1
    IN  SubSeq(out, first, last)

\* A newsletter was rendered to html from an articles array of the request.
NewsletterRendered ==
    /\ RenderAnswered /\ AskedName = "newsletter" /\ SentMap
    /\ SentBody.doc.data.bag["articles"].kind = "array"
    /\ conn.resp.status = 200 /\ conn.resp.hasHtml
SentArticles == SentBody.doc.data.bag["articles"].items

\* C7: a newsletter rendered with N articles has exactly N article blocks, in
\* the order of the articles; a divider in every block but the last (so
\* max(N-1, 0) of them); and a read-time line in exactly the blocks whose
\* article has a non-empty readTime.
C7_ListExpansion ==
    NewsletterRendered =>
      LET out == conn.resp.html
          N == Len(SentArticles)
      IN  /\ Cardinality(Positions(out, ArticleOpen)) = N
          /\ Cardinality(Positions(out, ArticleDivider)) = (IF N = 0 THEN 0 ELSE N - 1)
          /\ \A k \in 1..N :
               LET block == Tokens(BlockOf(out, k)) IN
               /\ SentArticles[k].title.str \in block
               /\ ArticleDivider \in block <=> k < N
               /\ ReadTimeOpen \in block <=>
                    (SentArticles[k].readTime.kind = "string"
                       /\ SentArticles[k].readTime.str # "")

\* C7 happens: two different articles, the first with a read time and the
\* second without one.
C7_Witness ==
    /\ NewsletterRendered
    /\ Len(SentArticles) = 2
    /\ SentArticles[1].title # SentArticles[2].title
    /\ SentArticles[1].readTime.kind = "string" /\ SentArticles[1].readTime.str # ""
    /\ SentArticles[2].readTime.kind = "undefined"
    /\ Cardinality(Positions(conn.resp.html, ArticleDivider)) = 1

\* A request for both outputs was answered with a render result.
BothRendered ==
    /\ RenderAnswered /\ SentObject /\ FormatOf(SentBody.doc) = "both"
    /\ conn.resp.status = 200

\* C8: in mode 'both' the html is the html of an 'html' render and the text
\* is the text of a 'text' render of the same template and data.
C8_BothIsHtmlAndText ==
    BothRendered =>
      /\ conn.resp.hasHtml /\ conn.resp.hasText
      /\ conn.resp.html =
           renderEmailTemplate(AskedName, DataOf(SentBody.doc), "html").html
      /\ conn.resp.text =
           renderEmailTemplate(AskedName, DataOf(SentBody.doc), "text").text

\* C8 happens: a registered template rendered in mode 'both' from a bag that
\* supplies a username, which both outputs then show.
C8_Witness ==
    /\ BothRendered /\ AskedName \in Registered /\ SentMap
    /\ SentBody.doc.data.bag["username"] = Str("Ana")
    /\ "Ana" \in Tokens(conn.resp.html)
    /\ "Ana" \in Tokens(conn.resp.text)

\* What the server at hand answers to a request whose body has arrived.
AnswerTo(req) ==
    IF req.server = "bun" THEN BunRender(SplitName(req.path, "render"), req.raw).resp
    ELSE NodeEndCallback(SplitName(req.path, "render"), req.raw).resp

\* C9: the same request answered again, with other requests and the passing
\* of time in between, gets the identical answer; an answer depends on
\* neither the clock nor the requests served before it.
C9_Idempotent ==
    /\ (kept.set /\ conn.pc = "done" /\ conn.req = kept.req) => conn.resp = kept.resp
    /\ (RenderAnswered /\ Lookup(AskedName) # "undefined")
         => conn.resp = AnswerTo(conn.req)

\* C9 happens: the kept request is answered again after another request was
\* served and the clock has advanced.
C9_Witness ==
    /\ kept.set /\ kept.later /\ now > 0
    /\ conn.pc = "done" /\ conn.req = kept.req
    /\ conn.resp.status = 200 /\ conn.resp.hasHtml /\ conn.resp.hasText

\* The words of an output: its tokens but the line breaks.
Words(out) == Tokens(out) \ {"\n"}

Markup(tree) ==
    {"<!DOCTYPE html>", ">", "<div preview>", "</div>"}
      \cup {HtmlTokens(tree[i])[1] :
               i \in {j \in 1..Len(tree) : tree[j].type \in {"open", "close", "void"}}}

\* password-reset was rendered in mode 'both' from a bag that supplies
\* username, resetUrl and expiryTime.
ResetRendered ==
    /\ BothRendered /\ AskedName = "password-reset" /\ SentMap
    /\ \A k \in {"username", "resetUrl", "expiryTime"} :
          SentBody.doc.data.bag[k].kind = "string"
SentValue(k) == SentBody.doc.data.bag[k].str

\* C11: password-reset rendered in mode 'both' with username, resetUrl and
\* expiryTime: the html holds the username, the resetUrl exactly twice (the
\* button's target and the printed URL) and the expiryTime; the text holds
\* the three values and no markup.
C11_ResetExample ==
    ResetRendered =>
      /\ SentValue("username") \in Tokens(conn.resp.html)
      /\ Cardinality(Positions(conn.resp.html, SentValue("resetUrl"))) = 2
      /\ SentValue("expiryTime") \in Tokens(conn.resp.html)
      /\ {SentValue("username"), SentValue("resetUrl"), SentValue("expiryTime")}
            \subseteq Tokens(conn.resp.text)
      /\ Tokens(conn.resp.text)
            \cap Markup(PasswordResetTree(PasswordResetProps(SentBody.doc.data))) = {}

\* C11 happens: the example scenario, Ana with https://x/y and 2 hours.
C11_Witness ==
    /\ ResetRendered
    /\ SentBody.doc.data.bag = ExampleBag
    /\ conn.resp.hasHtml /\ conn.resp.hasText
    /\ "https://x/y" \in Tokens(conn.resp.text)

\* C12: every response, whatever the method, the path and the outcome,
\* carries the three CORS headers.
C12_EveryResponseHasCors ==
    conn.pc = "done" => conn.resp.cors

\* C13: an OPTIONS request to any path is answered 200 with an empty body
\* and the CORS headers only, before any route is looked at: no registry
\* lookup, no body read, no render.
C13_PreflightFirst ==
    (conn.pc # "idle" /\ conn.req.method = "OPTIONS")
      => /\ conn.pc = "done"
         /\ conn.resp = Preflight
         /\ conn.body = <<>> /\ conn.renders = 0

\* The routes of the API: GET /health, GET /templates, POST /render/...,
\* GET /preview/... and GET /.
Routed(req) ==
    \/ req.method = "GET" /\ req.path \in {<<"health">>, <<"templates">>, <<>>}
    \/ req.method = "POST" /\ StartsWith(req.path, "render")
    \/ req.method = "GET" /\ StartsWith(req.path, "preview")

\* C14: every request that is no preflight and matches no route is answered
\* 404 with a JSON body {success: false, error, availableRoutes}.
C14_UnmatchedIs404 ==
    (conn.pc = "done" /\ conn.req.method # "OPTIONS" /\ ~Routed(conn.req))
      => /\ conn.resp.status = 404
         /\ conn.resp.ctype = "application/json"
         /\ conn.resp.success = "false"
         /\ conn.resp.error # ""
         /\ conn.resp.routes

\* welcome was asked for in html mode with an empty data bag, or with a body
\* that has no data member; the format is 'html' or left out.
WelcomeOfDefaults ==
    /\ RenderAnswered /\ AskedName = "welcome" /\ SentObject
    /\ FormatOf(SentBody.doc) = "html"
    /\ SentBody.doc.data \in {NonMapData("undefined"), MapData(EmptyBag)}

\* C15: welcome rendered in html mode with an empty data bag, or through a
\* body without a data member, shows the default username 'User' and the
\* default company name 'Unipack'.
C15_Defaulting ==
    WelcomeOfDefaults =>
      /\ conn.resp.status = 200 /\ conn.resp.hasHtml
      /\ {"User", "Unipack"} \subseteq Tokens(conn.resp.html)
      /\ {"User", "Unipack"}
            \subseteq Tokens(renderEmailTemplate("welcome", MapData(EmptyBag), "html").html)

\* C15 happens: a body with neither data nor format is answered with the
\* default document.
C15_Witness ==
    /\ WelcomeOfDefaults
    /\ SentBody.doc = ObjectDoc(NonMapData("undefined"), "absent")
    /\ "User" \in Tokens(conn.resp.html)

\* The answer a request gets when it is the only one served.
AloneAnswer(req) ==
    Bind(Handle(req, 0), LAMBDA out : IF out.final THEN out.resp ELSE AnswerTo(req))

\* C16: under every interleaving of two requests served concurrently, the
\* interleaved arrival of body chunks included, each request gets the answer
\* it would get if served alone, also after requests that ended in an error;
\* the template registry stays as it was at start.
C16_Isolated ==
    /\ \A c \in Conns :
          served[c].pc = "done" => served[c].resp = AloneAnswer(served[c].req)
    /\ registry = TemplateNames

\* C16 happens: two different render requests of the Node server, each
\* answered 200 after a chunk of the other arrived between its own chunks.
C16_Witness ==
    /\ \A c \in Conns :
          /\ served[c].pc = "done" /\ mixed[c]
          /\ served[c].req.server = "node"
          /\ served[c].resp.status = 200
    /\ served[1].req # served[2].req

\* The answer on the connection is a full success envelope, or a full error
\* envelope; the render ran at most once.
FullSuccess ==
    /\ conn.resp.success = "true" /\ conn.resp.status = 200
    /\ conn.resp.error = "" /\ conn.thrown = NoThrow
    /\ FormatOf(SentBody.doc) = "both" => conn.resp.hasHtml /\ conn.resp.hasText
FullError ==
    /\ conn.resp.success = "false" /\ conn.resp.status \in {400, 404, 500}
    /\ conn.resp.error # ""
    /\ ~conn.resp.hasHtml /\ conn.resp.html = <<>>
    /\ ~conn.resp.hasText /\ conn.resp.text = <<>>

\* C17: every POST /render request ends in one response, which is a full
\* success envelope or a full error envelope with neither html nor text;
\* no partial output is sent and no render is retried.
C17_OneFullEnvelope ==
    /\ [](RenderAnswered => (FullSuccess \/ FullError) /\ conn.renders <= 1)
    /\ (conn.pc = "reading") ~> (conn.pc = "done")

\* C17 happens: a render in mode 'both' failed and was answered with an
\* error envelope that carries no output.
C17_Witness ==
    /\ RenderAnswered /\ AskedName \in Registered
    /\ SentObject /\ FormatOf(SentBody.doc) = "both"
    /\ conn.thrown.where \in {"build", "serialize"}
    /\ FullError /\ conn.renders = 1

\* GET /preview/{name} has been answered by a server that has the route.
PreviewAnswered ==
    /\ conn.pc = "done" /\ conn.req.server \in RenderServers
    /\ conn.req.method = "GET" /\ StartsWith(conn.req.path, "preview")
PreviewName == SplitName(conn.req.path, "preview")

\* C18: GET /preview/{name} is answered 200 with the html-mode rendering of
\* the template with its sample data when the name is registered, and 404
\* for every other name; no other status is possible.
C18_PreviewIs200Or404 ==
    PreviewAnswered =>
      IF PreviewName \in Registered
      THEN /\ conn.resp.status = 200
           /\ conn.resp.ctype = "text/html"
           /\ conn.resp.html =
                renderEmailTemplate(PreviewName, MapData(SampleBag(PreviewName)),
                                    "html").html
      ELSE conn.resp.status = 404

\* A POST /render request was answered with success=true.
RenderSucceeded == RenderAnswered /\ conn.resp.success = "true"

NewsletterAsked ==
    /\ RenderAnswered /\ AskedName = "newsletter" /\ SentMap
    /\ FormatOf(SentBody.doc) \in {"html", "both"}
RecordsSent ==
    /\ SentBody.doc.data.bag["articles"].kind = "array"
    /\ \A i \in 1..Len(SentArticles) : ~SentArticles[i].isNull
SampleArticle == DefaultArticles.items[1]

\* C20: a supplied articles array is used wholesale: the request is not
\* rejected, there is one block per record (none for the empty array) and
\* no block of the default sample article, and a field a record lacks stays
\* empty in its block instead of taking the sample article's value; when
\* articles is absent the default sample array is rendered.
C20_ShallowMerge ==
    /\ (NewsletterAsked /\ RecordsSent) =>
          /\ conn.resp.status = 200
          /\ Cardinality(Positions(conn.resp.html, ArticleOpen)) = Len(SentArticles)
          /\ SampleArticle.title.str \notin Tokens(conn.resp.html)
          /\ \A k \in 1..Len(SentArticles) :
                LET block == Tokens(BlockOf(conn.resp.html, k)) IN
                /\ SentArticles[k].url.kind = "undefined" =>
                      /\ SampleArticle.url.str \notin block
                      /\ {"<Link style=articleLink>", "<Button style=articleButton>"}
                            \subseteq block
                /\ SentArticles[k].excerpt.kind = "undefined" =>
                      SampleArticle.excerpt.str \notin block
                /\ SentArticles[k].readTime.kind = "undefined" =>
                      SampleArticle.readTime.str \notin block
    /\ (NewsletterAsked /\ SentBody.doc.data.bag["articles"].kind = "undefined"
           /\ conn.resp.status = 200) =>
          /\ Cardinality(Positions(conn.resp.html, ArticleOpen)) = 1
          /\ {SampleArticle.title.str, SampleArticle.excerpt.str,
               SampleArticle.url.str, SampleArticle.readTime.str}
                \subseteq Tokens(BlockOf(conn.resp.html, 1))

\* C20 happens: the empty array, rendered without an article block.
C20_Witness ==
    /\ NewsletterAsked /\ RecordsSent
    /\ SentArticles = <<>>
    /\ conn.resp.status = 200
    /\ Positions(conn.resp.html, ArticleOpen) = {}

\* C21: the name is looked up before the body is read or parsed: a request
\* with an unregistered name gets 404 whatever its body, without the body
\* being read, and 400 is answered for a registered name only.
C21_LookupBeforeBody ==
    /\ (conn.pc # "idle" /\ IsRender(conn.req) /\ conn.req.server \in RenderServers
          /\ AskedName \notin Registered)
         => conn.pc = "done" /\ conn.resp.status = 404 /\ conn.body = <<>>
    /\ (RenderAnswered /\ conn.resp.status = 400) => AskedName \in Registered

\* The same request sent to the other of the two servers.
Twin(req) == [req EXCEPT !.server = IF req.server = "bun" THEN "node" ELSE "bun"]

\* C22: the Bun server and the Node server answer every request with the
\* same status and the same envelope, the /health timestamp apart: also a
\* body that parses but is no object or makes the render fail.
C22_ServersAgree ==
    (conn.pc = "done" /\ conn.req.server \in RenderServers)
      => [conn.resp EXCEPT !.ts = 0] = AloneAnswer(Twin(conn.req))

\* The path remainder after the leading '/render/' or '/preview/'.
Remainder(path) == Join(Tail(path))

\* C23: a template is rendered only when the whole path remainder after
\* '/render/' or '/preview/' is a registered name; a path with further
\* segments renders nothing and is answered 404.
C23_WholeRemainderIsName ==
    ((RenderAnswered \/ PreviewAnswered) /\ Remainder(conn.req.path) \notin Registered)
      => conn.resp.status = 404 /\ conn.renders = 0

\* C24: a render response with success=true carries html or text, whatever
\* the value of the request's format.
C24_SuccessHasOutput ==
    RenderSucceeded => conn.resp.hasHtml \/ conn.resp.hasText
====
